---- MODULE Spec2Model ----
(***************************************************************************)
(* State-machine model of the RAG backend (backend/app/main.py, db.py,     *)
(* pdf_processor.py, embeddings.py).                                      *)
(*                                                                         *)
(* The process starts in _startup (init_db, then run_schema) and then      *)
(* serves requests.  One action per endpoint models the whole handler,     *)
(* including every store statement and outbound call it makes.  The store, *)
(* the embedding API and the chat API are the environment: each of their   *)
(* calls either answers or raises, chosen by the action's `fault` input.   *)
(*                                                                         *)
(* `last` records the most recently finished request: the response the     *)
(* client received (status, body) and a trace of the calls the handler     *)
(* made while producing it.                                                *)
(*                                                                         *)
(* SpecConc runs the handlers that write documents and chunks concurrently,*)
(* one store statement per step; `inflight` holds the handlers that have   *)
(* been dispatched and have not returned.                                  *)
(***************************************************************************)
EXTENDS Integers, Sequences, FiniteSets, TLC

VARIABLES phase, frame, _conn, documents, chunks, chat_history, serial, clock, last, requests, inflight

vars == <<phase, frame, _conn, documents, chunks, chat_history, serial, clock, last, requests, inflight>>

store == <<documents, chunks, chat_history, serial, clock>>

startup == <<phase, frame, _conn>>

(***************************************************************************)
(* Bounds of the model.                                                    *)
(***************************************************************************)
\* largest `retries` argument init_db is called with
MaxRetries == 3
\* number of requests served in one behaviour
MaxRequests == 2
\* largest number of chunks the text splitter returns for one PDF
MaxSplit == 2
\* largest number of chunk ids the store hands out
MaxChunks == 3

(***************************************************************************)
(* Program constants (pydantic Field declarations of the request models).  *)
(***************************************************************************)
SEARCH_TOP_K_DEFAULT == 5
SEARCH_TOP_K_MIN == 1
SEARCH_TOP_K_MAX == 50
ASK_TOP_K_DEFAULT == 4
ASK_TOP_K_MIN == 1
ASK_TOP_K_MAX == 20

(***************************************************************************)
(* Values.                                                                 *)
(***************************************************************************)
\* embeddings: non-zero vectors of one fixed dimension
Vectors == {<<1, 0>>, <<1, 1>>}

Min(a, b) == IF a <= b THEN a ELSE b

Range(s) == {s[i] : i \in DOMAIN s}

Dot(a, b) == a[1] * b[1] + a[2] * b[2]

\* x / sqrt(A) >= y / sqrt(B), for A, B > 0, in integer arithmetic
RatioGeq(x, A, y, B) ==
    IF x >= 0 /\ y >= 0 THEN x * x * B >= y * y * A
    ELSE IF x >= 0 THEN TRUE
    ELSE IF y >= 0 THEN FALSE
    ELSE x * x * B <= y * y * A

\* (a <=> q) <= (b <=> q): cosine distance 1 - cos(a, q), compared exactly;
\* the factor |q| is common to both sides
DistLeq(a, b, q) == RatioGeq(Dot(a, q), Dot(a, a), Dot(b, q), Dot(b, b))

DistLt(a, b, q) == ~DistLeq(b, a, q)

(***************************************************************************)
(* The trace of a request and the responses of the API layer.              *)
(***************************************************************************)
NoTrace ==
    [fault |-> <<"none", 0>>, embed_calls |-> 0, chat_calls |-> 0, search_calls |-> <<>>,
     search_returned |-> <<>>, store_calls |-> 0, docs_created |-> <<>>, chunks_created |-> <<>>,
     deleted |-> <<>>, n_chunks |-> 0, chat_responses |-> <<>>]

\* the inputs of a request that the model does not keep
NoReq == [none |-> TRUE]

NoRequest == [ep |-> "none", req |-> NoReq, status |-> 0, body |-> [none |-> TRUE], trace |-> NoTrace]

Response(ep, req, status, body, trace) ==
    [ep |-> ep, req |-> req, status |-> status, body |-> body, trace |-> trace]

\* raise HTTPException(status_code=..., detail=...)
HTTPException(ep, req, status, detail, trace) == Response(ep, req, status, [detail |-> detail], trace)

\* pydantic rejects the body before the handler runs: 422 with the list of errors
RequestValidationError(ep, req) == Response(ep, req, 422, [detail |-> "validation error"], NoTrace)

\* an exception that leaves the handler: the server answers with its generic
\* plain-text 500, which carries nothing of the failure
UnhandledException(ep, req, trace) == Response(ep, req, 500, [text |-> "Internal Server Error"], trace)

(***************************************************************************)
(* Startup: init_db, then run_schema.                                      *)
(***************************************************************************)
NoFrame == [retries |-> 0, attempt |-> 0, ok |-> FALSE]

\* the request slots of the server: one per request of a behaviour
Procs == 1..MaxRequests

\* a slot whose request has not been dispatched
Idle == [op |-> "idle", pc |-> 0, doc_id |-> 0, todo |-> 0, chunk_ids |-> <<>>]

\* a slot whose handler has returned
Returned == [op |-> "returned", pc |-> 0, doc_id |-> 0, todo |-> 0, chunk_ids |-> <<>>]

\* what one pass of init_db's loop body can do
AttemptOutcomes == {"connect_raises", "register_vector_raises", "create_extension_raises", "ok"}

Init ==
    /\ phase = "init_db"
    /\ frame \in {[retries |-> n, attempt |-> 0, ok |-> FALSE] : n \in 0..MaxRetries}
    /\ _conn = "None"
    /\ documents = {}
    /\ chunks = {}
    /\ chat_history = {}
    /\ serial = [documents |-> 0, chunks |-> 0, chat_history |-> 0]
    /\ clock = 0
    /\ last = NoRequest
    /\ requests = 0
    /\ inflight = [p \in Procs |-> Idle]

\* init_db_attempt with the loop running over range(1, retries + 2)
init_db_attempt_off_by_one ==
    /\ phase = "init_db"
    /\ frame.attempt <= frame.retries
    /\ \E outcome \in AttemptOutcomes :
        /\ _conn' = IF outcome = "connect_raises" THEN _conn ELSE "connection"
        /\ frame' = [frame EXCEPT !.attempt = @ + 1, !.ok = (outcome = "ok")]
        /\ phase' = IF outcome = "ok" THEN "run_schema" ELSE "init_db"
    /\ UNCHANGED <<documents, chunks, chat_history, serial, clock, last, requests, inflight>>

\* one iteration of `for attempt in range(1, retries + 1)`
init_db_attempt ==
    /\ phase = "init_db"
    /\ frame.attempt < frame.retries
    /\ \E outcome \in AttemptOutcomes :
        /\ _conn' = IF outcome = "connect_raises" THEN _conn ELSE "connection"
        /\ frame' = [frame EXCEPT !.attempt = @ + 1, !.ok = (outcome = "ok")]
        /\ phase' = IF outcome = "ok" THEN "run_schema" ELSE "init_db"
    /\ UNCHANGED <<store, last, requests, inflight>>

\* the loop is exhausted: raise RuntimeError, startup fails
init_db_raise ==
    /\ phase = "init_db"
    /\ frame.attempt >= frame.retries
    /\ phase' = "init_db_raised"
    /\ UNCHANGED <<frame, _conn, store, last, requests, inflight>>

\* run_schema executes schema.sql on _conn; _startup returns and serving begins
run_schema ==
    /\ phase = "run_schema"
    /\ \E ok \in BOOLEAN :
        /\ phase' = IF ok THEN "serving" ELSE "run_schema_raised"
        /\ frame' = IF ok THEN NoFrame ELSE frame
    /\ UNCHANGED <<_conn, store, last, requests, inflight>>

\* conn(): the module-level connection, or RuntimeError("Database not
\* initialized") when it is None
conn == IF _conn = "None" THEN [raised |-> TRUE] ELSE [raised |-> FALSE, connection |-> _conn]

\* a request is dispatched to a handler only once _startup has returned
Serving == phase = "serving" /\ requests < MaxRequests

Finish(resp) ==
    /\ last' = resp
    /\ requests' = requests + 1
    /\ UNCHANGED <<startup, inflight>>

(***************************************************************************)
(* Persistence gateway (db.py).  Every statement runs on the one           *)
(* connection opened with autocommit=True, so each statement that returns  *)
(* is committed on its own.  `raises` is the environment's choice that the *)
(* statement fails (connection lost, constraint or type error).           *)
(***************************************************************************)
\* the foreign key of chunks.doc_id on documents.id declared by the schema
chunks_doc_id_fkey(docs, doc_id) == \E d \in docs : d.id = doc_id

\* INSERT INTO documents (doc_name) VALUES (%s) RETURNING id
db_insert_document(docs, seq, doc_name, raises) ==
    IF raises
    THEN [ok |-> FALSE, id |-> 0, rows |-> docs, seq |-> seq]
    ELSE [ok |-> TRUE, id |-> seq + 1, rows |-> docs \cup {[id |-> seq + 1, doc_name |-> doc_name]},
          seq |-> seq + 1]

\* SELECT COUNT(*) AS c FROM documents
db_count_documents(docs) == Cardinality(docs)

\* db_insert_chunk on a chunks table whose doc_id is not checked against documents
db_insert_chunk_unchecked(rows, seq, docs, doc_id, content, embedding, raises) ==
    IF raises
    THEN [ok |-> FALSE, id |-> 0, rows |-> rows, seq |-> seq]
    ELSE [ok |-> TRUE, id |-> seq + 1,
          rows |-> rows \cup {[id |-> seq + 1, doc_id |-> doc_id, content |-> content,
                               embedding |-> embedding]},
          seq |-> seq + 1]

\* INSERT INTO chunks (doc_id, content, embedding) VALUES (%s, %s, %s) RETURNING id
db_insert_chunk(rows, seq, docs, doc_id, content, embedding, raises) ==
    IF raises \/ ~chunks_doc_id_fkey(docs, doc_id)
    THEN [ok |-> FALSE, id |-> 0, rows |-> rows, seq |-> seq]
    ELSE [ok |-> TRUE, id |-> seq + 1,
          rows |-> rows \cup {[id |-> seq + 1, doc_id |-> doc_id, content |-> content,
                               embedding |-> embedding]},
          seq |-> seq + 1]

\* DELETE FROM documents under the foreign key of chunks: with no chunk left
\* the statement empties the table; with chunks left it either raises and
\* deletes nothing (a key that restricts) or deletes the chunks with their
\* documents (a key that cascades)
documents_delete_fkey(docs, rows, raises) ==
    IF raises THEN {[ok |-> FALSE, docs |-> docs, rows |-> rows]}
    ELSE IF \A c \in rows : ~chunks_doc_id_fkey(docs, c.doc_id)
    THEN {[ok |-> TRUE, docs |-> {}, rows |-> rows]}
    ELSE {[ok |-> FALSE, docs |-> docs, rows |-> rows],
          [ok |-> TRUE, docs |-> {}, rows |-> {c \in rows : ~chunks_doc_id_fkey(docs, c.doc_id)}]}

\* OrderByDistanceLimit without its ORDER BY: the first k rows in id order
RECURSIVE LimitWithoutOrderBy(_, _, _)
LimitWithoutOrderBy(rows, q, k) ==
    IF k <= 0 \/ rows = {} THEN {<<>>}
    ELSE LET m == CHOOSE m \in rows : \A r \in rows : m.id <= r.id
         IN  {<<m>> \o rest : rest \in LimitWithoutOrderBy(rows \ {m}, q, k - 1)}

\* ORDER BY embedding <=> q LIMIT k: the nearest row comes first, then the
\* nearest of the rest, k times or until no row is left; of rows at equal
\* distance any may come first
RECURSIVE OrderByDistanceLimit(_, _, _)
OrderByDistanceLimit(rows, q, k) ==
    IF k <= 0 \/ rows = {} THEN {<<>>}
    ELSE UNION {{<<m>> \o rest : rest \in OrderByDistanceLimit(rows \ {m}, q, k - 1)} :
                m \in {m \in rows : \A r \in rows : DistLeq(m.embedding, r.embedding, q)}}

\* SELECT id, doc_id, content, distance FROM chunks ORDER BY embedding <=> q LIMIT top_k:
\* the set of row sequences the statement may return
db_search_chunks(rows, q, top_k) == OrderByDistanceLimit(rows, q, top_k)

\* the columns of a search row that the model keeps
SearchRow(r) == [id |-> r.id, doc_id |-> r.doc_id, content |-> r.content]

SearchRows(p) == [i \in 1..Len(p) |-> SearchRow(p[i])]

\* INSERT INTO chat_history (session_id, role, message) VALUES (%s, %s, %s) RETURNING id;
\* created_at is assigned by the server (now)
db_insert_chat(rows, seq, session_id, role, message, now, raises) ==
    IF raises
    THEN [ok |-> FALSE, id |-> 0, rows |-> rows, seq |-> seq]
    ELSE [ok |-> TRUE, id |-> seq + 1,
          rows |-> rows \cup {[id |-> seq + 1, session_id |-> session_id, role |-> role,
                               message |-> message, created_at |-> now]},
          seq |-> seq + 1]

\* the timestamps the server may assign to an insert: its clock never runs
\* backwards, and two inserts may fall on the same tick
ServerNow(t) == {t, t + 1}

ChatRow(r) == [role |-> r.role, message |-> r.message, created_at |-> r.created_at]

\* ORDER BY created_at ASC: the earliest row comes first, then the earliest of
\* the rest; of rows with equal created_at any may come first
RECURSIVE OrderByCreatedAt(_)
OrderByCreatedAt(rows) ==
    IF rows = {} THEN {<<>>}
    ELSE UNION {{<<m>> \o rest : rest \in OrderByCreatedAt(rows \ {m})} :
                m \in {m \in rows : \A r \in rows : m.created_at <= r.created_at}}

\* SELECT role, message, created_at FROM chat_history WHERE session_id = %s
\* ORDER BY created_at ASC: the set of row sequences the statement may return
db_get_chat_history(rows, session_id) ==
    {[i \in 1..Len(p) |-> ChatRow(p[i])] : p \in OrderByCreatedAt({r \in rows : r.session_id = session_id})}

(***************************************************************************)
(* Request inputs.                                                         *)
(***************************************************************************)
Names == {"", "d"}

Contents == {"", "c1"}

Sessions == {"s1", "s2"}

Roles == {"user", "Assistant", "system"}

Messages == {"m"}

Questions == {"", "q"}

TopKs == {0, 1, 20, 21, 50, 51}

\* str.lower on the role strings
lower(s) == IF s = "Assistant" THEN "assistant" ELSE s

\* pydantic Field(default, ge=lo, le=hi) on an optional integer field
TopKField(body, default, lo, hi) ==
    IF "top_k" \notin DOMAIN body THEN [valid |-> TRUE, value |-> default]
    ELSE [valid |-> body.top_k >= lo /\ body.top_k <= hi, value |-> body.top_k]

\* class SearchIn / class SearchTextIn: top_k: int = Field(5, ge=1, le=50)
SearchIn_top_k(body) == TopKField(body, SEARCH_TOP_K_DEFAULT, SEARCH_TOP_K_MIN, SEARCH_TOP_K_MAX)

\* AskIn_top_k with the upper limit of SearchIn
AskIn_top_k_le50(body) == TopKField(body, ASK_TOP_K_DEFAULT, ASK_TOP_K_MIN, SEARCH_TOP_K_MAX)

\* class AskIn: top_k: int = Field(4, ge=1, le=20)
AskIn_top_k(body) == TopKField(body, ASK_TOP_K_DEFAULT, ASK_TOP_K_MIN, ASK_TOP_K_MAX)

\* Field(..., min_length=1)
MinLength1(s) == s # ""

\* what the model keeps of a request body with an optional top_k
TopKReq(body) == IF "top_k" \in DOMAIN body THEN [top_k |-> body.top_k] ELSE [top_k_omitted |-> TRUE]

WithTopK(bodies) == bodies \cup {[f \in DOMAIN b \cup {"top_k"} |-> IF f = "top_k" THEN k ELSE b[f]] : b \in bodies, k \in TopKs}

(***************************************************************************)
(* Health and reset.                                                       *)
(***************************************************************************)
\* GET /health: the document count is best effort
health ==
    /\ Serving
    /\ \E raises \in BOOLEAN :
        LET trace == [NoTrace EXCEPT !.fault = IF raises THEN <<"store", 1>> ELSE <<"none", 0>>,
                                     !.store_calls = 1]
            body == IF raises THEN [ok |-> TRUE, documents_null |-> TRUE]
                    ELSE [ok |-> TRUE, documents |-> db_count_documents(documents)]
        IN  Finish(Response("health", NoReq, 200, body, trace))
    /\ UNCHANGED store

\* ResetStatements without the DELETE FROM chat_history
ResetStatements_without_chat == <<"chunks", "documents">>

\* the three DELETE statements of reset_database, in the order it issues them
ResetStatements == <<"chunks", "documents", "chat_history">>

\* DELETE /reset-database.  failing = 0: no statement raises; failing = j: the
\* j-th statement raises.  The statements before it have been committed.
reset_database ==
    /\ Serving
    /\ \E failing \in 0..Len(ResetStatements) :
        LET executed == IF failing = 0 THEN Len(ResetStatements) ELSE failing - 1
            deleted == SubSeq(ResetStatements, 1, executed)
            trace == [NoTrace EXCEPT !.fault = IF failing = 0 THEN <<"none", 0>> ELSE <<"store", failing>>,
                                     !.store_calls = Min(executed + 1, Len(ResetStatements)),
                                     !.deleted = deleted]
        IN  /\ chunks' = IF "chunks" \in Range(deleted) THEN {} ELSE chunks
            /\ documents' = IF "documents" \in Range(deleted) THEN {} ELSE documents
            /\ chat_history' = IF "chat_history" \in Range(deleted) THEN {} ELSE chat_history
            /\ Finish(IF failing = 0
                      THEN Response("reset_database", NoReq, 200,
                                    [message |-> "Database reset successfully", documents_deleted |-> TRUE,
                                     chunks_deleted |-> TRUE, chat_history_deleted |-> TRUE], trace)
                      ELSE HTTPException("reset_database", NoReq, 500, "Database reset error", trace))
    /\ UNCHANGED <<serial, clock>>

(***************************************************************************)
(* Documents and chunks.                                                   *)
(***************************************************************************)
\* POST /documents
create_document ==
    /\ Serving
    /\ \E doc_name \in Names :
        IF ~MinLength1(doc_name)
        THEN Finish(RequestValidationError("create_document", NoReq)) /\ UNCHANGED store
        ELSE \E raises \in BOOLEAN :
            LET r == db_insert_document(documents, serial.documents, doc_name, raises)
                trace == [NoTrace EXCEPT !.fault = IF raises THEN <<"store", 1>> ELSE <<"none", 0>>,
                                         !.store_calls = 1,
                                         !.docs_created = IF r.ok THEN <<r.id>> ELSE <<>>]
            IN  /\ documents' = r.rows
                /\ serial' = [serial EXCEPT !.documents = r.seq]
                /\ Finish(IF r.ok THEN Response("create_document", NoReq, 200, [doc_id |-> r.id], trace)
                          ELSE HTTPException("create_document", NoReq, 500, "/documents error", trace))
                /\ UNCHANGED <<chunks, chat_history, clock>>

\* the doc_id values a client sends: the ids handed out so far and one that
\* was never handed out
DocIds == 1..(serial.documents + 1)

\* POST /chunks
create_chunk ==
    /\ Serving
    /\ serial.chunks < MaxChunks
    /\ \E content \in Contents :
        IF ~MinLength1(content)
        THEN Finish(RequestValidationError("create_chunk", NoReq)) /\ UNCHANGED store
        ELSE \E doc_id \in DocIds, embedding \in Vectors, raises \in BOOLEAN :
            LET r == db_insert_chunk(chunks, serial.chunks, documents, doc_id, content, embedding, raises)
                trace == [NoTrace EXCEPT !.fault = IF r.ok THEN <<"none", 0>> ELSE <<"store", 1>>,
                                         !.store_calls = 1,
                                         !.chunks_created = IF r.ok THEN <<r.id>> ELSE <<>>]
            IN  /\ chunks' = r.rows
                /\ serial' = [serial EXCEPT !.chunks = r.seq]
                /\ Finish(IF r.ok THEN Response("create_chunk", NoReq, 200, [chunk_id |-> r.id], trace)
                          ELSE HTTPException("create_chunk", NoReq, 500, "/chunks error", trace))
                /\ UNCHANGED <<documents, chat_history, clock>>

\* embed_text: the embedding API answers with some vector, or the call raises
embed_text == {[raised |-> TRUE]} \cup {[raised |-> FALSE, embedding |-> v] : v \in Vectors}

\* POST /embed-and-chunk
embed_and_chunk ==
    /\ Serving
    /\ serial.chunks < MaxChunks
    /\ \E content \in Contents :
        IF ~MinLength1(content)
        THEN Finish(RequestValidationError("embed_and_chunk", NoReq)) /\ UNCHANGED store
        ELSE \E doc_id \in DocIds, e \in embed_text :
            IF e.raised
            THEN /\ Finish(HTTPException("embed_and_chunk", NoReq, 500, "/embed-and-chunk error",
                                         [NoTrace EXCEPT !.fault = <<"embed", 1>>, !.embed_calls = 1]))
                 /\ UNCHANGED store
            ELSE \E raises \in BOOLEAN :
                 LET r == db_insert_chunk(chunks, serial.chunks, documents, doc_id, content, e.embedding, raises)
                     trace == [NoTrace EXCEPT !.fault = IF r.ok THEN <<"none", 0>> ELSE <<"store", 1>>,
                                              !.embed_calls = 1, !.store_calls = 1,
                                              !.chunks_created = IF r.ok THEN <<r.id>> ELSE <<>>]
                 IN  /\ chunks' = r.rows
                     /\ serial' = [serial EXCEPT !.chunks = r.seq]
                     /\ Finish(IF r.ok THEN Response("embed_and_chunk", NoReq, 200, [chunk_id |-> r.id], trace)
                               ELSE HTTPException("embed_and_chunk", NoReq, 500, "/embed-and-chunk error", trace))
                     /\ UNCHANGED <<documents, chat_history, clock>>

(***************************************************************************)
(* Chat history.                                                           *)
(***************************************************************************)
\* POST /chat
add_chat ==
    /\ Serving
    /\ \E session_id \in Sessions, role \in Roles, message \in Messages :
        IF lower(role) \notin {"user", "assistant"}
        THEN /\ Finish(HTTPException("add_chat", NoReq, 400, "role must be 'user' or 'assistant'", NoTrace))
             /\ UNCHANGED store
        ELSE \E now \in ServerNow(clock), raises \in BOOLEAN :
            LET r == db_insert_chat(chat_history, serial.chat_history, session_id, lower(role), message, now, raises)
                trace == [NoTrace EXCEPT !.fault = IF raises THEN <<"store", 1>> ELSE <<"none", 0>>,
                                         !.store_calls = 1]
            IN  /\ chat_history' = r.rows
                /\ serial' = [serial EXCEPT !.chat_history = r.seq]
                /\ clock' = IF r.ok THEN now ELSE clock
                /\ Finish(IF r.ok THEN Response("add_chat", NoReq, 200, [chat_id |-> r.id], trace)
                          ELSE HTTPException("add_chat", NoReq, 500, "/chat error", trace))
                /\ UNCHANGED <<documents, chunks>>

\* GET /chat/{session_id}
get_chat ==
    /\ Serving
    /\ \E session_id \in Sessions, raises \in BOOLEAN :
        IF raises
        THEN Finish(HTTPException("get_chat", [session_id |-> session_id], 500, "/chat/{session_id} error",
                                  [NoTrace EXCEPT !.fault = <<"store", 1>>, !.store_calls = 1]))
        ELSE \E history \in db_get_chat_history(chat_history, session_id) :
            Finish(Response("get_chat", [session_id |-> session_id], 200, [history |-> history],
                            [NoTrace EXCEPT !.store_calls = 1]))
    /\ UNCHANGED store

(***************************************************************************)
(* Retrieval.                                                              *)
(***************************************************************************)
\* POST /search
search_chunks ==
    /\ Serving
    /\ \E body \in WithTopK({[embedding |-> q] : q \in Vectors}) :
        LET top_k == SearchIn_top_k(body)
        IN  IF ~top_k.valid
            THEN Finish(RequestValidationError("search_chunks", TopKReq(body)))
            ELSE \E raises \in BOOLEAN :
                LET trace == [NoTrace EXCEPT !.fault = IF raises THEN <<"store", 1>> ELSE <<"none", 0>>,
                                             !.store_calls = 1, !.search_calls = <<top_k.value>>]
                IN  IF raises
                    THEN Finish(HTTPException("search_chunks", TopKReq(body), 500, "/search error", trace))
                    ELSE \E rows \in db_search_chunks(chunks, body.embedding, top_k.value) :
                        Finish(Response("search_chunks", TopKReq(body), 200, [results |-> SearchRows(rows)], [trace EXCEPT !.search_returned = <<Len(rows)>>]))
    /\ UNCHANGED store

\* POST /search-text
search_text ==
    /\ Serving
    /\ \E body \in WithTopK({[text |-> "t"]}) :
        LET top_k == SearchIn_top_k(body)
        IN  IF ~top_k.valid
            THEN Finish(RequestValidationError("search_text", TopKReq(body)))
            ELSE \E e \in embed_text :
                IF e.raised
                THEN Finish(HTTPException("search_text", TopKReq(body), 500, "/search-text error",
                                          [NoTrace EXCEPT !.fault = <<"embed", 1>>, !.embed_calls = 1]))
                ELSE \E raises \in BOOLEAN :
                    LET trace == [NoTrace EXCEPT !.fault = IF raises THEN <<"store", 1>> ELSE <<"none", 0>>,
                                                 !.embed_calls = 1, !.store_calls = 1,
                                                 !.search_calls = <<top_k.value>>]
                    IN  IF raises
                        THEN Finish(HTTPException("search_text", TopKReq(body), 500, "/search-text error", trace))
                        ELSE \E rows \in db_search_chunks(chunks, e.embedding, top_k.value) :
                            Finish(Response("search_text", TopKReq(body), 200, [results |-> SearchRows(rows)], [trace EXCEPT !.search_returned = <<Len(rows)>>]))
    /\ UNCHANGED store

(***************************************************************************)
(* Ask: retrieve, then generate.                                           *)
(***************************************************************************)
\* _get_openai_client: raises RuntimeError when OPENAI_API_KEY is not set
OpenAIKeySet == BOOLEAN

\* message.content of a chat choice: None, the empty string, or text
MessageContents == {"None", "", "text"}

\* `not x` on a message content
Falsy(x) == x \in {"None", ""}

\* client.chat.completions.create: the call raises, or answers with no choice
\* or with one choice whose message is an object or a dict
chat_completions_create ==
    {[raised |-> TRUE], [raised |-> FALSE, choices |-> <<>>]}
    \cup {[raised |-> FALSE, choices |-> <<[is_dict |-> d, content |-> c]>>] :
            d \in BOOLEAN, c \in MessageContents}

\* AnswerOf without the fallback `if not answer: answer = "... No content ..."`
AnswerOf_without_placeholder(resp) ==
    LET has_choice == resp.choices # <<>>
        message == resp.choices[1]
        by_attr == IF has_choice /\ ~message.is_dict THEN message.content ELSE "None"
    IN  IF Falsy(by_attr) /\ has_choice /\ message.is_dict THEN message.content ELSE by_attr

\* lines 239-244 of ask: the answer taken from the chat response
AnswerOf(resp) ==
    LET has_choice == resp.choices # <<>>
        message == resp.choices[1]
        by_attr == IF has_choice /\ ~message.is_dict THEN message.content ELSE "None"
        by_key == IF Falsy(by_attr) /\ has_choice /\ message.is_dict THEN message.content ELSE by_attr
    IN  IF Falsy(by_key) THEN "No content returned from model." ELSE by_key

AskBodies == WithTopK({[question |-> qn] : qn \in Questions})

\* ask_generate without the early return on an empty search result
ask_generate_without_early_return(req, rows, trace) ==
    \E key_set \in OpenAIKeySet :
        IF ~key_set
        THEN Finish(UnhandledException("ask", req, [trace EXCEPT !.fault = <<"client", 1>>]))
        ELSE \E resp \in chat_completions_create :
            IF resp.raised
            THEN Finish(HTTPException("ask", req, 500, "OpenAI error",
                                      [trace EXCEPT !.fault = <<"chat", 1>>, !.chat_calls = 1,
                                                    !.chat_responses = <<resp>>]))
            ELSE Finish(Response("ask", req, 200, [answer |-> AnswerOf(resp), sources |-> SearchRows(rows)],
                                 [trace EXCEPT !.chat_calls = 1, !.chat_responses = <<resp>>]))

\* the steps of ask after the search returned `rows`
ask_generate(req, rows, trace) ==
    IF rows = <<>>
    THEN Finish(Response("ask", req, 200,
                         [answer |-> "I don't know based on the current knowledge base.", sources |-> <<>>],
                         trace))
    ELSE \E key_set \in OpenAIKeySet :
        IF ~key_set
        THEN Finish(UnhandledException("ask", req, [trace EXCEPT !.fault = <<"client", 1>>]))
        ELSE \E resp \in chat_completions_create :
            IF resp.raised
            THEN Finish(HTTPException("ask", req, 500, "OpenAI error",
                                      [trace EXCEPT !.fault = <<"chat", 1>>, !.chat_calls = 1,
                                                    !.chat_responses = <<resp>>]))
            ELSE Finish(Response("ask", req, 200, [answer |-> AnswerOf(resp), sources |-> SearchRows(rows)],
                                 [trace EXCEPT !.chat_calls = 1, !.chat_responses = <<resp>>]))

\* POST /ask
ask ==
    /\ Serving
    /\ \E body \in AskBodies :
        LET top_k == AskIn_top_k(body)
        IN  IF ~top_k.valid \/ ~MinLength1(body.question)
            THEN Finish(RequestValidationError("ask", TopKReq(body)))
            ELSE \E e \in embed_text :
                IF e.raised
                THEN Finish(UnhandledException("ask", TopKReq(body), [NoTrace EXCEPT !.fault = <<"embed", 1>>, !.embed_calls = 1]))
                ELSE \E raises \in BOOLEAN :
                    LET trace == [NoTrace EXCEPT !.fault = IF raises THEN <<"store", 1>> ELSE <<"none", 0>>,
                                                 !.embed_calls = 1, !.store_calls = 1,
                                                 !.search_calls = <<top_k.value>>]
                    IN  IF raises
                        THEN Finish(UnhandledException("ask", TopKReq(body), trace))
                        ELSE \E rows \in db_search_chunks(chunks, e.embedding, top_k.value) :
                            ask_generate(TopKReq(body), rows, [trace EXCEPT !.search_returned = <<Len(rows)>>])
    /\ UNCHANGED store

\* POST /ask-debug
ask_debug ==
    /\ Serving
    /\ \E body \in AskBodies :
        LET top_k == AskIn_top_k(body)
        IN  IF ~top_k.valid \/ ~MinLength1(body.question)
            THEN Finish(RequestValidationError("ask_debug", TopKReq(body)))
            ELSE \E e \in embed_text :
                IF e.raised
                THEN Finish(HTTPException("ask_debug", TopKReq(body), 500, "ask-debug error",
                                          [NoTrace EXCEPT !.fault = <<"embed", 1>>, !.embed_calls = 1]))
                ELSE \E raises \in BOOLEAN :
                    LET trace == [NoTrace EXCEPT !.fault = IF raises THEN <<"store", 1>> ELSE <<"none", 0>>,
                                                 !.embed_calls = 1, !.store_calls = 1,
                                                 !.search_calls = <<top_k.value>>]
                    IN  IF raises
                        THEN Finish(HTTPException("ask_debug", TopKReq(body), 500, "ask-debug error", trace))
                        ELSE \E rows \in db_search_chunks(chunks, e.embedding, top_k.value) :
                            Finish(Response("ask_debug", TopKReq(body), 200, [hits |-> SearchRows(rows)], [trace EXCEPT !.search_returned = <<Len(rows)>>]))
    /\ UNCHANGED store

(***************************************************************************)
(* PDF upload (main.py upload_pdf, pdf_processor.py).                      *)
(***************************************************************************)
\* file names, as character sequences
Filenames == {<<"r", ".", "P", "D", "F">>, <<"r", ".", "t", "x", "t">>, <<"p", "d", "f">>}

LowerChar(c) == CASE c = "P" -> "p" [] c = "D" -> "d" [] c = "F" -> "f" [] OTHER -> c

\* str.lower
filename_lower(s) == [i \in DOMAIN s |-> LowerChar(s[i])]

\* str.endswith
endswith(s, suffix) ==
    /\ Len(s) >= Len(suffix)
    /\ SubSeq(s, Len(s) - Len(suffix) + 1, Len(s)) = suffix

\* what page.extract_text() does on a page: text, only white space, or raises
PageOutcomes == {"text", "blank", "raises"}

\* uploaded files: bytes PdfReader cannot read, or a sequence of pages
PDFs ==
    {[readable |-> FALSE, pages |-> <<>>]}
    \cup {[readable |-> TRUE, pages |-> ps] :
            ps \in {<<>>, <<"blank">>, <<"raises">>, <<"text">>, <<"blank", "raises">>,
                    <<"blank", "text">>, <<"text", "raises">>, <<"text", "text">>}}

\* extract_text_from_pdf without the try around page.extract_text(): a page
\* that raises fails the extraction
extract_text_from_pdf_page_error_fatal(pdf) ==
    LET kept == {i \in DOMAIN pdf.pages : pdf.pages[i] = "text"}
    IN  IF ~pdf.readable \/ (\E i \in DOMAIN pdf.pages : pdf.pages[i] = "raises")
        THEN [ok |-> FALSE, error |-> "Failed to extract text from PDF", text_content |-> {}]
        ELSE IF kept = {}
        THEN [ok |-> FALSE, error |-> "Failed to extract text from PDF: No text content found in PDF",
              text_content |-> {}]
        ELSE [ok |-> TRUE, error |-> "", text_content |-> kept]

\* extract_text_from_pdf: the numbers of the pages whose text is kept; a page
\* that is blank or whose extraction raises is skipped; ValueError when the
\* bytes cannot be read or no page is kept
extract_text_from_pdf(pdf) ==
    LET kept == {i \in DOMAIN pdf.pages : pdf.pages[i] = "text"}
    IN  IF ~pdf.readable THEN [ok |-> FALSE, error |-> "Failed to extract text from PDF", text_content |-> {}]
        ELSE IF kept = {}
        THEN [ok |-> FALSE, error |-> "Failed to extract text from PDF: No text content found in PDF",
              text_content |-> {}]
        ELSE [ok |-> TRUE, error |-> "", text_content |-> kept]

\* page_content of the chunks the splitter returns, in split order
PageContents == <<"c1", "c2", "c3", "c4">>

\* chunk_pdf_text: the splitter returns at least one chunk for a non-empty text;
\* how many depends on the text's length
chunk_pdf_text == 1..Min(MaxSplit, MaxChunks - serial.chunks)

\* where upload_pdf can fail after the text was extracted and split into n chunks
UploadFaults(n) ==
    {<<"none", 0>>, <<"insert_document", 0>>} \cup {<<op, i>> : op \in {"embed", "insert_chunk"}, i \in 1..n}

\* the chunks whose embedding is stored when upload_pdf fails at `fault`
Embedded(n, fault) ==
    IF fault[1] = "none" THEN n ELSE IF fault[1] = "insert_document" THEN 0 ELSE fault[2] - 1

\* the loop of upload_pdf with chunk_ids.insert(0, chunk_id) in place of
\* chunk_ids.append(chunk_id)
RECURSIVE ingest_chunks_ids_prepended(_, _, _, _, _, _)
ingest_chunks_ids_prepended(i, n, doc_id, embs, fault, acc) ==
    IF i > n THEN acc
    ELSE IF fault = <<"embed", i>> THEN [acc EXCEPT !.raised = TRUE, !.embed_calls = @ + 1]
    ELSE IF fault = <<"insert_chunk", i>>
    THEN [acc EXCEPT !.raised = TRUE, !.embed_calls = @ + 1, !.store_calls = @ + 1]
    ELSE LET r == db_insert_chunk(acc.rows, acc.seq, acc.docs, doc_id, PageContents[i], embs[i], FALSE)
         IN  IF ~r.ok
             THEN [acc EXCEPT !.raised = TRUE, !.embed_calls = @ + 1, !.store_calls = @ + 1]
             ELSE ingest_chunks_ids_prepended(i + 1, n, doc_id, embs, fault,
                                [acc EXCEPT !.rows = r.rows, !.seq = r.seq, !.chunk_ids = <<r.id>> \o @,
                                            !.embed_calls = @ + 1, !.store_calls = @ + 1])

\* the loop `for chunk in chunks` of upload_pdf from chunk i on; it stops at
\* the first call that raises
RECURSIVE ingest_chunks(_, _, _, _, _, _)
ingest_chunks(i, n, doc_id, embs, fault, acc) ==
    IF i > n THEN acc
    ELSE IF fault = <<"embed", i>> THEN [acc EXCEPT !.raised = TRUE, !.embed_calls = @ + 1]
    ELSE IF fault = <<"insert_chunk", i>>
    THEN [acc EXCEPT !.raised = TRUE, !.embed_calls = @ + 1, !.store_calls = @ + 1]
    ELSE LET r == db_insert_chunk(acc.rows, acc.seq, acc.docs, doc_id, PageContents[i], embs[i], FALSE)
         IN  IF ~r.ok
             THEN [acc EXCEPT !.raised = TRUE, !.embed_calls = @ + 1, !.store_calls = @ + 1]
             ELSE ingest_chunks(i + 1, n, doc_id, embs, fault,
                                [acc EXCEPT !.rows = r.rows, !.seq = r.seq, !.chunk_ids = Append(@, r.id),
                                            !.embed_calls = @ + 1, !.store_calls = @ + 1])

\* upload_pdf once the file name was accepted: lines 286-322
upload_pdf_process(filename, pdf) ==
    LET x == extract_text_from_pdf(pdf)
    IN  IF ~x.ok
        THEN /\ Finish(HTTPException("upload_pdf", [filename |-> filename, pdf |-> pdf], 400, x.error,
                                     [NoTrace EXCEPT !.fault = <<"extract", 0>>]))
             /\ UNCHANGED store
        ELSE \E n \in chunk_pdf_text : \E fault \in UploadFaults(n) : \E embs \in [1..Embedded(n, fault) -> Vectors] :
            LET d == db_insert_document(documents, serial.documents, filename, fault = <<"insert_document", 0>>)
                start == [rows |-> chunks, seq |-> serial.chunks, docs |-> d.rows, chunk_ids |-> <<>>,
                          raised |-> FALSE, embed_calls |-> 0, store_calls |-> 1]
                loop == IF d.ok THEN ingest_chunks(1, n, d.id, embs, fault, start)
                        ELSE [start EXCEPT !.raised = TRUE]
                trace == [NoTrace EXCEPT !.fault = fault, !.embed_calls = loop.embed_calls,
                                         !.store_calls = loop.store_calls,
                                         !.docs_created = IF d.ok THEN <<d.id>> ELSE <<>>,
                                         !.chunks_created = loop.chunk_ids,
                                         !.n_chunks = n]
            IN  /\ documents' = d.rows
                /\ chunks' = loop.rows
                /\ serial' = [serial EXCEPT !.documents = d.seq, !.chunks = loop.seq]
                /\ Finish(IF loop.raised
                          THEN HTTPException("upload_pdf", [filename |-> filename, pdf |-> pdf], 500, "PDF upload error", trace)
                          ELSE Response("upload_pdf", [filename |-> filename, pdf |-> pdf], 200,
                                        [message |-> "PDF uploaded and processed successfully",
                                         doc_id |-> d.id, filename |-> filename,
                                         chunks_created |-> Len(loop.chunk_ids),
                                         chunk_ids |-> loop.chunk_ids], trace))
                /\ UNCHANGED <<chat_history, clock>>

\* POST /upload-pdf
upload_pdf ==
    /\ Serving
    /\ \E filename \in Filenames :
        IF ~endswith(filename_lower(filename), <<".", "p", "d", "f">>)
        THEN /\ Finish(HTTPException("upload_pdf", [filename |-> filename], 400, "Only PDF files are supported", NoTrace))
             /\ UNCHANGED store
        ELSE \E pdf \in PDFs : upload_pdf_process(filename, pdf)

(***************************************************************************)
(* The specification.                                                      *)
(***************************************************************************)
Next ==
    \/ init_db_attempt
    \/ init_db_raise
    \/ run_schema
    \/ ask
    \/ ask_debug
    \/ search_chunks
    \/ search_text
    \/ health
    \/ reset_database
    \/ create_document
    \/ create_chunk
    \/ embed_and_chunk
    \/ add_chat
    \/ get_chat
    \/ upload_pdf

Spec == Init /\ [][Next]_vars

(***************************************************************************)
(* Concurrent requests.  The server runs handlers side by side on the one  *)
(* shared connection; each store statement is one step, committed on its   *)
(* own.  The handlers that write documents and chunks are modelled:        *)
(* create_document, create_chunk, upload_pdf and reset_database.           *)
(***************************************************************************)
ConcOps == {"create_document", "create_chunk", "upload_pdf", "reset_database"}

\* a handler returns: its response is recorded and its slot is released
Return(p, resp) ==
    /\ last' = resp
    /\ inflight' = [inflight EXCEPT ![p] = Returned]
    /\ UNCHANGED <<startup, requests, clock>>

\* a handler stays in flight with its frame updated
Continue(p, f) ==
    /\ inflight' = [inflight EXCEPT ![p] = f]
    /\ UNCHANGED <<startup, requests, clock, last>>

\* the server hands a request to a handler: the body is validated, the file
\* of an upload is read, checked, extracted and split into `todo` chunks
dispatch ==
    /\ Serving
    /\ \E op \in ConcOps :
        \E doc_id \in (IF op = "create_chunk" THEN DocIds ELSE {0}) :
            \E todo \in (IF op = "upload_pdf" THEN 1..MaxSplit ELSE {0}) :
                inflight' = [inflight EXCEPT ![requests + 1] =
                                [op |-> op, pc |-> 0, doc_id |-> doc_id, todo |-> todo, chunk_ids |-> <<>>]]
    /\ requests' = requests + 1
    /\ UNCHANGED <<startup, store, last>>

\* create_document: its one statement
conc_create_document(p) ==
    /\ inflight[p].op = "create_document"
    /\ \E raises \in BOOLEAN :
        LET r == db_insert_document(documents, serial.documents, "d", raises)
            trace == [NoTrace EXCEPT !.fault = IF raises THEN <<"store", 1>> ELSE <<"none", 0>>,
                                     !.store_calls = 1,
                                     !.docs_created = IF r.ok THEN <<r.id>> ELSE <<>>]
        IN  /\ documents' = r.rows
            /\ serial' = [serial EXCEPT !.documents = r.seq]
            /\ Return(p, IF r.ok THEN Response("create_document", NoReq, 200, [doc_id |-> r.id], trace)
                         ELSE HTTPException("create_document", NoReq, 500, "/documents error", trace))
            /\ UNCHANGED <<chunks, chat_history>>

\* create_chunk: its one statement
conc_create_chunk(p) ==
    /\ inflight[p].op = "create_chunk"
    /\ serial.chunks < MaxChunks
    /\ \E embedding \in Vectors, raises \in BOOLEAN :
        LET r == db_insert_chunk(chunks, serial.chunks, documents, inflight[p].doc_id, "c1", embedding, raises)
            trace == [NoTrace EXCEPT !.fault = IF r.ok THEN <<"none", 0>>
                                               ELSE IF raises THEN <<"store", 1>>
                                               ELSE <<"chunks_doc_id_fkey", 1>>,
                                     !.store_calls = 1,
                                     !.chunks_created = IF r.ok THEN <<r.id>> ELSE <<>>]
        IN  /\ chunks' = r.rows
            /\ serial' = [serial EXCEPT !.chunks = r.seq]
            /\ Return(p, IF r.ok THEN Response("create_chunk", NoReq, 200, [chunk_id |-> r.id], trace)
                         ELSE HTTPException("create_chunk", NoReq, 500, "/chunks error", trace))
            /\ UNCHANGED <<documents, chat_history>>

\* upload_pdf, line 293: doc_id = db.insert_document(file.filename)
conc_upload_insert_document(p) ==
    /\ inflight[p].op = "upload_pdf"
    /\ inflight[p].pc = 0
    /\ \E raises \in BOOLEAN :
        LET r == db_insert_document(documents, serial.documents, "d", raises)
        IN  /\ documents' = r.rows
            /\ serial' = [serial EXCEPT !.documents = r.seq]
            /\ IF r.ok
               THEN Continue(p, [inflight[p] EXCEPT !.pc = 1, !.doc_id = r.id])
               ELSE Return(p, HTTPException("upload_pdf", NoReq, 500, "PDF upload error",
                                            [NoTrace EXCEPT !.fault = <<"insert_document", 0>>, !.store_calls = 1]))
            /\ UNCHANGED <<chunks, chat_history>>

\* upload_pdf, lines 298-304: one pass of the loop, the embedding call and
\* then the INSERT; after the last chunk the handler returns
conc_upload_chunk(p) ==
    LET f == inflight[p]
        i == Len(f.chunk_ids) + 1
        tr == [NoTrace EXCEPT !.docs_created = <<f.doc_id>>, !.chunks_created = f.chunk_ids,
                              !.n_chunks = f.todo, !.embed_calls = i, !.store_calls = i]
    IN  /\ f.op = "upload_pdf"
        /\ f.pc = 1
        /\ serial.chunks < MaxChunks
        /\ \E e \in embed_text :
            IF e.raised
            THEN /\ Return(p, HTTPException("upload_pdf", NoReq, 500, "PDF upload error",
                                            [tr EXCEPT !.fault = <<"embed", i>>]))
                 /\ UNCHANGED <<documents, chunks, chat_history, serial>>
            ELSE \E raises \in BOOLEAN :
                LET r == db_insert_chunk(chunks, serial.chunks, documents, f.doc_id, PageContents[i],
                                         e.embedding, raises)
                    ids == Append(f.chunk_ids, r.id)
                IN  /\ chunks' = r.rows
                    /\ serial' = [serial EXCEPT !.chunks = r.seq]
                    /\ IF ~r.ok
                       THEN Return(p, HTTPException("upload_pdf", NoReq, 500, "PDF upload error",
                                        [tr EXCEPT !.store_calls = i + 1,
                                                   !.fault = IF raises THEN <<"insert_chunk", i>>
                                                             ELSE <<"chunks_doc_id_fkey", i>>]))
                       ELSE IF i < f.todo
                       THEN Continue(p, [f EXCEPT !.chunk_ids = ids])
                       ELSE Return(p, Response("upload_pdf", NoReq, 200,
                                        [message |-> "PDF uploaded and processed successfully",
                                         doc_id |-> f.doc_id, chunks_created |-> Len(ids), chunk_ids |-> ids],
                                        [tr EXCEPT !.store_calls = i + 1, !.chunks_created = ids]))
                    /\ UNCHANGED <<documents, chat_history>>

\* reset_database: the next of its DELETE statements; after the last one, or
\* when one raises, the handler returns
conc_reset_delete(p) ==
    LET f == inflight[p]
        table == ResetStatements[f.pc + 1]
        tr == [NoTrace EXCEPT !.store_calls = f.pc + 1, !.deleted = SubSeq(ResetStatements, 1, f.pc)]
    IN  /\ f.op = "reset_database"
        /\ f.pc < Len(ResetStatements)
        /\ \E raises \in BOOLEAN :
            \E r \in (IF table = "documents" THEN documents_delete_fkey(documents, chunks, raises)
                      ELSE {[ok |-> ~raises, docs |-> documents,
                             rows |-> IF table = "chunks" /\ ~raises THEN {} ELSE chunks]}) :
                /\ chunks' = r.rows
                /\ documents' = r.docs
                /\ chat_history' = IF table = "chat_history" /\ r.ok THEN {} ELSE chat_history
                /\ IF ~r.ok
                   THEN Return(p, HTTPException("reset_database", NoReq, 500, "Database reset error",
                                    [tr EXCEPT !.fault = IF raises THEN <<"store", f.pc + 1>>
                                                         ELSE <<"chunks_doc_id_fkey", f.pc + 1>>]))
                   ELSE IF f.pc + 1 < Len(ResetStatements)
                   THEN Continue(p, [f EXCEPT !.pc = @ + 1])
                   ELSE Return(p, Response("reset_database", NoReq, 200,
                                    [message |-> "Database reset successfully", documents_deleted |-> TRUE,
                                     chunks_deleted |-> TRUE, chat_history_deleted |-> TRUE],
                                    [tr EXCEPT !.deleted = ResetStatements]))
                /\ UNCHANGED serial

NextConc ==
    \/ init_db_attempt
    \/ init_db_raise
    \/ run_schema
    \/ dispatch
    \/ \E p \in Procs : conc_create_document(p)
    \/ \E p \in Procs : conc_create_chunk(p)
    \/ \E p \in Procs : conc_upload_insert_document(p)
    \/ \E p \in Procs : conc_upload_chunk(p)
    \/ \E p \in Procs : conc_reset_delete(p)

SpecConc == Init /\ [][NextConc]_vars

(***************************************************************************)
(* Properties.                                                             *)
(***************************************************************************)
\* the top_k values the store-level properties are evaluated for
CheckedTopKs == 1..MaxChunks \cup {SEARCH_TOP_K_MAX}

\* C1: a reset is atomic: every reset attempt, also one in which a DELETE
\* fails, either leaves all three tables empty or changes none of them.
C1_ResetAtomic ==
    [][(last'.ep = "reset_database" /\ requests' = requests + 1)
        => \/ (chunks' = {} /\ documents' = {} /\ chat_history' = {})
           \/ UNCHANGED <<chunks, documents, chat_history>>]_vars

\* the chunk ids a response of upload_pdf reports (none when it has no chunk_ids)
ReportedChunkIds(resp) == IF "chunk_ids" \in DOMAIN resp.body THEN resp.body.chunk_ids ELSE <<>>

\* C2: when the embedding call or insert_chunk fails for a chunk, ingestion
\* stops at that chunk, the response is not a success, and it reports the ids
\* of the chunks created before the failure.
C2_PartialProgressReported ==
    (last.ep = "upload_pdf" /\ last.trace.fault[1] \in {"embed", "insert_chunk"})
    => /\ last.status # 200
       /\ Len(last.trace.chunks_created) = last.trace.fault[2] - 1
       /\ last.trace.embed_calls = last.trace.fault[2]
       /\ ReportedChunkIds(last) = last.trace.chunks_created

\* C3: an /ask request whose search returns no chunk (as it does whenever the
\* store holds no chunk) is answered with the fixed "I don't know" answer and
\* no sources, and makes no chat-completion call.
C3_EmptyRetrievalShortCircuit ==
    last.ep = "ask"
    => /\ (chunks = {} /\ last.trace.search_returned # <<>>) => last.trace.search_returned = <<0>>
       /\ last.trace.search_returned = <<0>>
          => /\ last.status = 200
             /\ "answer" \in DOMAIN last.body
             /\ last.body.answer = "I don't know based on the current knowledge base."
             /\ last.body.sources = <<>>
             /\ last.trace.chat_calls = 0

C3_Witness ==
    /\ last.ep = "ask"
    /\ last.trace.search_returned = <<0>>
    /\ last.status = 200
    /\ last.trace.chat_calls = 0

C4_StartupInv ==
    /\ frame.attempt <= frame.retries
    /\ phase = "init_db" => ~frame.ok
    /\ phase = "init_db_raised" => (frame.attempt = frame.retries /\ ~frame.ok)
    /\ phase \in {"run_schema", "run_schema_raised"} => frame.ok
    /\ requests > 0 => phase = "serving"

C4_StartupStep ==
    /\ (phase = "init_db" /\ frame' # frame) => frame'.attempt = frame.attempt + 1
    /\ (phase' = "run_schema" /\ phase # phase') => (phase = "init_db" /\ frame'.ok)
    /\ (phase' \in {"serving", "run_schema_raised"} /\ phase # phase') => phase = "run_schema"

\* C4: init_db makes at most `retries` attempts, each pass of its loop being
\* one attempt; it returns at the first attempt that succeeds and raises once
\* `retries` attempts have failed; run_schema runs only after init_db returned,
\* and requests are handled only after run_schema returned.
C4_BoundedStartup == []C4_StartupInv /\ [][C4_StartupStep]_vars

C4_Witness == phase = "run_schema" /\ frame.attempt = 2 /\ frame.retries > 2

\* C5: every failure of the store, of the embedding call or of the chat call
\* during a request ends in an error response that carries a detail message.
C5_FailuresTranslated ==
    last.trace.fault[1] \in {"store", "embed", "client", "chat", "insert_document", "insert_chunk"}
    => (last.status >= 400 /\ "detail" \in DOMAIN last.body)

\* C6: a top_k outside [1,50] (search endpoints) or [1,20] (ask endpoints) is
\* rejected before any embedding or store call; every db.search_chunks call
\* carries a top_k within the endpoint's range; an omitted top_k is 5 for
\* search and 4 for ask.
C6_TopKValidated ==
    LET t == last.trace
        asking == last.ep \in {"ask", "ask_debug"}
        hi == IF asking THEN 20 ELSE 50
    IN  last.ep \in {"search_chunks", "search_text", "ask", "ask_debug"}
        => /\ ("top_k" \in DOMAIN last.req /\ (last.req.top_k < 1 \/ last.req.top_k > hi))
              => (last.status = 422 /\ t.embed_calls = 0 /\ t.store_calls = 0 /\ t.search_calls = <<>>)
           /\ \A i \in DOMAIN t.search_calls : t.search_calls[i] >= 1 /\ t.search_calls[i] <= hi
           /\ ("top_k_omitted" \in DOMAIN last.req /\ t.search_calls # <<>>)
              => t.search_calls = <<IF asking THEN 4 ELSE 5>>
           /\ ("top_k" \in DOMAIN last.req /\ t.search_calls # <<>>)
              => t.search_calls = <<last.req.top_k>>

C6_Witness ==
    /\ last.ep = "ask"
    /\ "top_k" \in DOMAIN last.req
    /\ last.req.top_k = 21
    /\ last.status = 422

\* the rows of session s in the order they were inserted (ids are handed out
\* in insertion order)
InsertionOrder(s) ==
    LET mine == {r \in chat_history : r.session_id = s}
    IN  [i \in 1..Cardinality(mine) |->
            ChatRow(CHOOSE r \in mine : Cardinality({x \in mine : x.id <= r.id}) = i)]

\* C7: get_chat_history(s) returns exactly the messages inserted for session
\* s, each once, in insertion order, whatever non-decreasing created_at the
\* server assigned.
C7_ChatHistoryInInsertionOrder ==
    \A s \in Sessions : db_get_chat_history(chat_history, s) = {InsertionOrder(s)}

\* C8: after a reset that returns successfully the document count is 0, every
\* search returns no row and every session's history is empty.
C8_ResetComplete ==
    (last.ep = "reset_database" /\ last.status = 200)
    => /\ db_count_documents(documents) = 0
       /\ \A q \in Vectors, k \in CheckedTopKs : db_search_chunks(chunks, q, k) = {<<>>}
       /\ \A s \in Sessions : db_get_chat_history(chat_history, s) = {<<>>}

C8_Witness ==
    /\ last.ep = "reset_database"
    /\ last.status = 200
    /\ serial.documents > 0
    /\ serial.chunks > 1
    /\ documents = {}

\* C9: for every query vector and top_k, search_chunks returns min(top_k,
\* number of stored chunks) distinct stored chunks in non-decreasing distance,
\* and no chunk left out is strictly nearer than a returned one.
C9_SearchOrdered ==
    \A q \in Vectors, k \in CheckedTopKs :
        LET results == db_search_chunks(chunks, q, k)
        IN  /\ results # {}
            /\ \A res \in results :
                /\ Len(res) = Min(k, Cardinality(chunks))
                /\ Range(res) \subseteq chunks
                /\ Cardinality(Range(res)) = Len(res)
                /\ \A i, j \in DOMAIN res : i < j => DistLeq(res[i].embedding, res[j].embedding, q)
                /\ \A c \in chunks \ Range(res), i \in DOMAIN res : ~DistLt(c.embedding, res[i].embedding, q)

C9_Witness ==
    /\ Cardinality(chunks) = 3
    /\ \E q \in Vectors :
        /\ Cardinality(db_search_chunks(chunks, q, 2)) > 1
        /\ \E a, b \in chunks : DistLt(a.embedding, b.embedding, q)

\* a file name ending in ".pdf", in any letter case
HasPdfExtension(f) ==
    /\ Len(f) >= 4
    /\ f[Len(f) - 3] = "."
    /\ f[Len(f) - 2] \in {"p", "P"}
    /\ f[Len(f) - 1] \in {"d", "D"}
    /\ f[Len(f)] \in {"f", "F"}

\* C10: an upload without a .pdf name, or none of whose pages yields text, is
\* answered with 400 and creates no document and no chunk; blank pages and
\* pages whose extraction raises do not fail an upload that has a text page.
C10_ExtractionErrors ==
    last.ep = "upload_pdf"
    => LET bad_name == ~HasPdfExtension(last.req.filename)
           no_text == /\ "pdf" \in DOMAIN last.req
                      /\ \A i \in DOMAIN last.req.pdf.pages : last.req.pdf.pages[i] # "text"
       IN  /\ (bad_name \/ no_text)
              => /\ last.status = 400
                 /\ last.trace.docs_created = <<>>
                 /\ last.trace.chunks_created = <<>>
                 /\ last.trace.store_calls = 0
           /\ (~bad_name /\ ~no_text)
              => /\ last.trace.fault[1] # "extract"
                 /\ last.status # 400
           /\ (~bad_name /\ ~no_text /\ last.trace.fault[1] = "none")
              => /\ last.status = 200
                 /\ Len(last.trace.docs_created) = 1
                 /\ Len(last.trace.chunks_created) >= 1

C10_Witness ==
    /\ last.ep = "upload_pdf"
    /\ last.status = 200
    /\ "pdf" \in DOMAIN last.req
    /\ last.req.pdf.pages = <<"text", "raises">>

\* C11: an upload that reports success created exactly one document and, for
\* each chunk of the split text in split order, made one embedding call and
\* one insert_chunk under that document's id; chunk_ids lists the created
\* ids in chunk order, chunks_created is the number of chunks of the split
\* text (at least 1), and every listed chunk is stored under doc_id.
C11_UploadSuccessDetails ==
    (last.ep = "upload_pdf" /\ last.status = 200)
    => LET t == last.trace
           b == last.body
       IN  /\ t.docs_created = <<b.doc_id>>
           /\ \E d \in documents : d.id = b.doc_id
           /\ t.n_chunks >= 1
           /\ b.chunks_created = t.n_chunks
           /\ Len(b.chunk_ids) = t.n_chunks
           /\ b.chunk_ids = t.chunks_created
           /\ t.embed_calls = t.n_chunks
           /\ t.store_calls = t.n_chunks + 1
           /\ \A i, j \in DOMAIN b.chunk_ids : i < j => b.chunk_ids[i] < b.chunk_ids[j]
           /\ \A i \in DOMAIN b.chunk_ids :
                \E c \in chunks : /\ c.id = b.chunk_ids[i]
                                  /\ c.doc_id = b.doc_id
                                  /\ c.content = PageContents[i]

C11_Witness ==
    /\ last.ep = "upload_pdf"
    /\ last.status = 200
    /\ last.body.chunks_created = 2
    /\ last.body.chunk_ids = <<2, 3>>

\* a chat response without usable text: no choice, or a content that is
\* missing or empty
NoUsableText(resp) == resp.choices = <<>> \/ resp.choices[1].content \in {"None", ""}

\* C12: for an /ask request whose search returned at least one chunk and that
\* reached the chat call: exactly one chat call is made; when it raises the
\* response is an error with a message; when it answers without usable text
\* the response is 200 with the fixed placeholder answer and the retrieved
\* chunks as sources; when it answers with text, that text is the answer.
C12_PlaceholderNoRetry ==
    (last.ep = "ask" /\ last.trace.chat_responses # <<>>)
    => LET t == last.trace
           resp == t.chat_responses[1]
       IN  /\ t.search_returned # <<>> /\ t.search_returned[1] >= 1
           /\ Len(t.chat_responses) = 1
           /\ t.chat_calls = 1
           /\ resp.raised => (last.status >= 400 /\ "detail" \in DOMAIN last.body)
           /\ ~resp.raised
              => /\ last.status = 200
                 /\ Len(last.body.sources) = t.search_returned[1]
                 /\ \A i \in DOMAIN last.body.sources :
                      \E c \in chunks : SearchRow(c) = last.body.sources[i]
                 /\ last.body.answer = IF NoUsableText(resp) THEN "No content returned from model."
                                       ELSE resp.choices[1].content

C12_Witness ==
    /\ last.ep = "ask"
    /\ last.status = 200
    /\ last.trace.chat_responses # <<>>
    /\ ~last.trace.chat_responses[1].raised
    /\ last.trace.chat_responses[1].choices # <<>>
    /\ last.trace.chat_responses[1].choices[1].content = ""
    /\ Len(last.body.sources) = 2

\* the stored document a doc_id refers to exists
Refers(docs, doc_id) == \E d \in docs : d.id = doc_id

C13_Inv == \A c \in chunks : Refers(documents, c.doc_id)

C13_Step ==
    /\ \A c \in chunks' \ chunks : Refers(documents, c.doc_id)
    /\ \A p \in Procs :
        (/\ inflight'[p] # inflight[p]
         /\ inflight[p].op = "create_chunk" \/ (inflight[p].op = "upload_pdf" /\ inflight[p].pc = 1)
         /\ ~Refers(documents, inflight[p].doc_id))
        => /\ chunks' = chunks
           /\ inflight'[p] = Returned
           /\ last'.status = 500
    /\ \A d \in documents \ documents' : \A c \in chunks' : c.doc_id # d.id

\* C13: with handlers interleaved one store statement at a time, every stored
\* chunk's doc_id refers to a stored document in every state; an insert of a
\* chunk whose doc_id does not exist stores nothing and fails its request;
\* and no step removes a document that a remaining chunk refers to.
C13_ReferentialIntegrity == []C13_Inv /\ [][C13_Step]_vars

C13_Witness ==
    /\ last.ep = "upload_pdf"
    /\ last.trace.fault[1] = "chunks_doc_id_fkey"
    /\ last.trace.docs_created # <<>>
    /\ ~Refers(documents, last.trace.docs_created[1])
    /\ \E p \in Procs : inflight[p].op = "reset_database"

\* C14: once init_db has ended by raising, the module-level connection is
\* unset and conn() raises.
C14_ConnUnsetAfterFailedInit ==
    phase = "init_db_raised" => (_conn = "None" /\ conn.raised)

====
